---- MODULE Spec2Model ----
(***************************************************************************)
(* Model of the rover-booking-hub intake pipeline: the SMS webhook handler *)
(* (src/routes/webhooks.js), the EID builder, the intake helpers and the   *)
(* reparseAll batch job (src/services/intake.js), and the booking actions  *)
(* of the API router that give Bookings their statuses.                    *)
(*                                                                         *)
(* Time is counted in seconds (the code counts milliseconds; every         *)
(* duration of the code is a whole number of seconds).  A handler is split *)
(* into one action per awaited record-store call, which is where Node can  *)
(* interleave two requests.                                                *)
(***************************************************************************)
EXTENDS Integers, Sequences, FiniteSets, TLC

\* ---------------------------------------------------------------- bounds
MaxReq    == 2      \* webhook deliveries in one behaviour
MaxTicks  == 1      \* clock advances (one day each)
MaxManual == 1      \* Bookings entered by hand
MaxUserOps == 1     \* confirm / decline clicks
MaxReparse == 2     \* runs of the batch job

\* ------------------------------------------------------------- constants
HOUR == 60 * 60
DAY  == 24 * HOUR
TOLERANCE == 60            \* 60 * 1000 ms
WINDOW_DAYS == 2           \* 2*24*60*60*1000 ms either side of seg.startAt
LOOKBACK_DAYS == 180       \* reparseAll's default opts.days
DEFAULT_HOUR == 17         \* mk(): dt.setHours(17,0,0,0)
SLICE == 120               \* String(body).slice(0, 120)
GRACE_DAYS == 7            \* FLAGS.autoArchiveDays, AUTO_ARCHIVE_DAYS || 7

Now0 == 10 * HOUR          \* the clock when the behaviour starts: day 0, 10:00
NoTs == 0                  \* the payload carries no (or no numeric) timestamp
ProviderTs == 9 * HOUR     \* a timestamp the SMS relay stamped: day 0, 09:00

Reqs == 1..MaxReq
NoBooking == [id |-> 0, status |-> "none", serviceType |-> "none", startAt |-> 0, endAt |-> 0]

\* ------------------------------------------------------ message texts
\* A text is what the intake helpers read off it: the vocabulary words it
\* holds, its date expressions in text order, and the pet names it mentions.
\* A date expression is absolute (month/day tokens, here day numbers d1..d2)
\* or relative to the reference instant ("tomorrow": +1 day).
Abs(d1, d2) == [kind |-> "abs", d1 |-> d1, d2 |-> d2]
Rel(k)      == [kind |-> "rel", d1 |-> k, d2 |-> k]

\* Date expressions as they are written, for the resolver on its own.  m is a
\* month number as written (1 is January), mm a month name (0 is January);
\* no year is written.  link: a connector ("to", "through", ...) stands
\* between this expression and the next one.
Range(m1, d1, m2, d2) ==                 \* "11/20 to 11/23"
  [kind |-> "range", m1 |-> m1, d1 |-> d1, m2 |-> m2, d2 |-> d2]
Slash(m, d, link) ==                     \* "11/20"
  [kind |-> "slash", m |-> m, d |-> d, link |-> link]
Named(mm, dd, link) ==                   \* "Nov 20"
  [kind |-> "named", mm |-> mm, dd |-> dd, link |-> link]
Compact(mm, d1, d2, link) ==             \* "Nov 13-18"
  [kind |-> "compact", mm |-> mm, d1 |-> d1, d2 |-> d2, link |-> link]
WeekendOf(n, mm) ==                      \* "2nd weekend of november"
  [kind |-> "weekendOf", n |-> n, mm |-> mm]

TxtThanks   == [words |-> {"thanks"},       dates |-> << >>,            pets |-> {}]
TxtBoard    == [words |-> {"board"},        dates |-> <<Abs(5, 7)>>,    pets |-> {"Vida"}]
TxtMulti    == [words |-> {"daycare"},      dates |-> <<Abs(1, 1), Abs(4, 4), Abs(3, 3)>>, pets |-> {}]
TxtWalk     == [words |-> {"book", "walk"}, dates |-> <<Abs(5, 5)>>,    pets |-> {}]
TxtTomorrow == [words |-> {"stay"},         dates |-> <<Rel(1)>>,       pets |-> {}]
TxtDateOnly == [words |-> {},               dates |-> <<Abs(5, 7)>>,    pets |-> {}]
TxtKwOnly   == [words |-> {"booking"},      dates |-> << >>,            pets |-> {}]
TxtOvernight == [words |-> {"overnight"},   dates |-> <<Abs(5, 7)>>,    pets |-> {}]
TxtDaycare  == [words |-> {"daycare"},      dates |-> <<Abs(5, 5)>>,    pets |-> {}]
TxtToday    == [words |-> {"stay"},         dates |-> <<Rel(0)>>,       pets |-> {}]

Texts == {TxtThanks, TxtBoard, TxtMulti, TxtWalk, TxtTomorrow, TxtDateOnly, TxtKwOnly,
          TxtOvernight, TxtDaycare, TxtToday}
Senders == {"+15551234567"}
OtherPhone == "+15557654321"
Stamps == {NoTs, ProviderTs}
OracleLabels == {"BOOKING_REQUEST", "GENERAL"}

\* ------------------------------------------------------ intake helpers
KEYWORDS == {"book", "booking", "reserve", "reservation", "rover", "sitter",
             "sitting", "board", "boarding", "overnight", "stay", "daycare",
             "drop-in", "cuidar", "hospedaje", "paseo", "thanksgiving"}

findKeywords(text) == text.words \cap KEYWORDS

startOfDay(t) == (t \div DAY) * DAY

mk(day) == day * DAY + DEFAULT_HOUR * HOUR

\* The calendar.  Day 0 of the model is Wednesday 2025-11-12 (months count
\* from 0, as in the code; Sunday is weekday 0).
Epoch == [y |-> 2025, mm |-> 10, dd |-> 12, wd |-> 3]

isLeap(y) == y % 4 = 0 /\ (y % 100 # 0 \/ y % 400 = 0)

monthLength(y, mm) ==
  IF mm = 1 THEN (IF isLeap(y) THEN 29 ELSE 28)
  ELSE IF mm \in {3, 5, 8, 10} THEN 30 ELSE 31

\* days from 1 January of year y to the first of month mm
RECURSIVE daysToMonth(_, _)
daysToMonth(y, mm) == IF mm = 0 THEN 0 ELSE daysToMonth(y, mm - 1) + monthLength(y, mm - 1)

\* days from 1 January of the epoch's year to 1 January of year y
RECURSIVE daysToYear(_)
daysToYear(y) ==
  IF y = Epoch.y THEN 0
  ELSE IF y > Epoch.y THEN daysToYear(y - 1) + (IF isLeap(y - 1) THEN 366 ELSE 365)
  ELSE daysToYear(y + 1) - (IF isLeap(y) THEN 366 ELSE 365)

\* new Date(y, mm, dd), as a day number: a month past December or a day past
\* the end of its month rolls over into the following ones
Date(y, mm, dd) ==
  daysToYear(y + mm \div 12) + daysToMonth(y + mm \div 12, mm % 12) + (dd - 1)
    - (daysToMonth(Epoch.y, Epoch.mm) + Epoch.dd - 1)

getFullYear(t) ==
  CHOOSE y \in (Epoch.y - 2)..(Epoch.y + 4) :
    Date(y, 0, 1) * DAY <= t /\ t < Date(y + 1, 0, 1) * DAY

getMonth(t) ==
  CHOOSE mm \in 0..11 : /\ Date(getFullYear(t), mm, 1) * DAY <= t
                        /\ t < Date(getFullYear(t), mm + 1, 1) * DAY

getDate(t) == t \div DAY - Date(getFullYear(t), getMonth(t), 1) + 1

\* lines 341-347: no year written: this year, or the next one if the date lies
\* more than seven days back
yearInfer(ref, mm, dd) ==
  IF Date(getFullYear(ref), mm, dd) * DAY < ref - 7 * DAY
  THEN getFullYear(ref) + 1 ELSE getFullYear(ref)

\* Math.round((b - a) / day) >= 1 ? 'Overnight' : 'Daycare'
spanHint(a, b) == IF 2 * (b - a) >= DAY THEN "Overnight" ELSE "Daycare"

Segment(e, ref) ==
  LET base == IF e.kind = "rel" THEN startOfDay(ref) \div DAY ELSE 0
      s  == mk(base + e.d1)
      e0 == mk(base + e.d2)
      en == IF e0 < s THEN e0 + DAY ELSE e0
  IN  [startAt |-> s, endAt |-> en, serviceHint |-> spanHint(s, en)]

\* lines 563-568, mk(y, m, d, t) with no time of day in the text
mkDate(y, mm, dd) == mk(Date(y, mm, dd))

\* lines 589-593, 786-789: if (endAt < startAt) endAt.setDate(endAt.getDate() + 1)
rollover(startAt, endAt) == IF endAt < startAt THEN endAt + DAY ELSE endAt

Seg(startAt, endAt) ==
  [startAt |-> startAt, endAt |-> rollover(startAt, endAt),
   serviceHint |-> spanHint(startAt, rollover(startAt, endAt))]

\* lines 580-594, branch A: mm/dd <connector> mm/dd
explicitRange(e, ref) ==
  Seg(mkDate(yearInfer(ref, e.m1 - 1, e.d1), e.m1 - 1, e.d1),
      mkDate(yearInfer(ref, e.m2 - 1, e.d2), e.m2 - 1, e.d2))

\* lines 696-722, branch F: the nth Saturday of the month in the reference
\* instant's year, 09:00, to the Sunday after it, 17:00
nthSaturday(y, mm, n) ==
  LET getDay(d) == (Epoch.wd + Date(y, mm, d)) % 7
      Saturdays == {d \in 1..monthLength(y, mm) : getDay(d) = 6}
  IN  {d \in Saturdays : Cardinality({c \in Saturdays : c <= d}) = n}

weekendOf(e, ref) ==
  IF nthSaturday(getFullYear(ref), e.mm, e.n) = {} THEN << >>
  ELSE LET sat == Date(getFullYear(ref), e.mm,
                       CHOOSE d \in nthSaturday(getFullYear(ref), e.mm, e.n) : TRUE)
       IN  <<[startAt |-> sat * DAY + 9 * HOUR, endAt |-> (sat + 1) * DAY + DEFAULT_HOUR * HOUR,
              serviceHint |-> "Overnight"]>>

\* lines 504-547, scanDateTokens: the tokens each pattern finds in an
\* expression, sorted by their position (tokens at the same position stay in
\* the order of the patterns).  link: a connector lies between the token and
\* the next one.
tokensOf(e, ref) ==
  LET Token(mm, dd, yy, link) == [mm |-> mm, dd |-> dd, yy |-> yy, link |-> link] IN
  IF e.kind = "named"                          \* rx1
  THEN <<Token(e.mm, e.dd, yearInfer(ref, e.mm, e.dd), e.link)>>
  ELSE IF e.kind = "slash"                     \* rx3
  THEN <<Token(e.m - 1, e.d, yearInfer(ref, e.m - 1, e.d), e.link)>>
  ELSE \* "Nov 13-18": rx1 finds "Nov 13", c1 finds both days, and rx3 reads
       \* "13-18" as month 13, day 18; the hyphen lies between the last two
       <<Token(e.mm, e.d1, yearInfer(ref, e.mm, e.d1), FALSE),
         Token(e.mm, e.d1, yearInfer(ref, e.mm, e.d1), FALSE),
         Token(e.d1 - 1, e.d2, yearInfer(ref, e.d1 - 1, e.d2), TRUE),
         Token(e.mm, e.d2, yearInfer(ref, e.mm, e.d1), e.link)>>

RECURSIVE scanDateTokens(_, _)
scanDateTokens(es, ref) ==
  IF es = << >> THEN << >> ELSE tokensOf(Head(es), ref) \o scanDateTokens(Tail(es), ref)

\* lines 776-791, branch H: a token, or two tokens with a connector between
\* them, make a segment
RECURSIVE pairTokens(_, _)
pairTokens(toks, i) ==
  IF i > Len(toks) THEN << >>
  ELSE IF i < Len(toks) /\ toks[i].link
  THEN <<Seg(mkDate(toks[i].yy, toks[i].mm, toks[i].dd),
             mkDate(toks[i + 1].yy, toks[i + 1].mm, toks[i + 1].dd))>>
         \o pairTokens(toks, i + 2)
  ELSE <<Seg(mkDate(toks[i].yy, toks[i].mm, toks[i].dd),
             mkDate(toks[i].yy, toks[i].mm, toks[i].dd))>>
         \o pairTokens(toks, i + 1)

\* The first branch that matches the text answers.  A text of the deliveries
\* holds expressions of one kind: dates with their year, or a relative day.
parseSegments(text, ref) ==
  IF text.dates = << >> THEN << >>
  ELSE IF text.dates[1].kind \in {"abs", "rel"}
  THEN [i \in 1..Len(text.dates) |-> Segment(text.dates[i], ref)]
  ELSE IF text.dates[1].kind = "range" THEN <<explicitRange(text.dates[1], ref)>>
  ELSE IF text.dates[1].kind = "weekendOf" THEN weekendOf(text.dates[1], ref)
  ELSE pairTokens(scanDateTokens(text.dates, ref), 1)

NoRange == [startAt |-> 0, endAt |-> 0, serviceHint |-> "none"]

pickDateRange(text, ref) ==
  LET segs == parseSegments(text, ref)
  IN  IF Len(segs) > 0 THEN segs[1] ELSE NoRange

\* classifyService reads the clock itself: pickDateRange(text) with ref = new Date()
classifyService(text, clock) ==
  IF text.words \cap {"overnight", "board", "boarding", "sleep", "sleepover"} # {} THEN "Overnight"
  ELSE IF text.words \cap {"daycare", "guarderia"} # {} THEN "Daycare"
  ELSE IF text.words \cap {"drop-in", "check-in", "visita", "visitar"} # {} THEN "Drop-in"
  ELSE IF text.words \cap {"walk", "walker", "walking"} # {} THEN "Walk"
  ELSE LET rng == pickDateRange(text, clock)
       IN  IF rng # NoRange
           THEN (IF 2 * (rng.endAt - rng.startAt) >= DAY THEN "Overnight" ELSE "Daycare")
           ELSE "Unspecified"

extractPetNames(text) == text.pets

\* Strings that matter to the key are sequences of characters; "" and
\* undefined are the empty sequence.  A timestamp is a number, 0 standing for
\* every falsy one (absent, 0, NaN).
Sep == <<":", ":">>

numeral(timestamp) == IF timestamp = 0 THEN << >> ELSE <<ToString(timestamp)>>

\* String(body || '').slice(0, 120)
slice(body) == IF Len(body) > SLICE THEN SubSeq(body, 1, SLICE) ELSE body

\* a faulty variant: the provider's message id is never used
buildEIDFallbackOnly(platform, threadId, providerMessageId, from, body, timestamp) ==
  (IF platform # << >> THEN platform ELSE <<"sms">>) \o Sep \o from \o Sep
    \o numeral(timestamp) \o Sep \o slice(body)

\* sha256 of the raw string, taken as injective: the key is the raw string.
buildEID(platform, threadId, providerMessageId, from, body, timestamp) ==
  IF platform # << >> /\ threadId # << >> /\ providerMessageId # << >>
  THEN platform \o Sep \o threadId \o Sep \o providerMessageId
  ELSE (IF platform # << >> THEN platform ELSE <<"sms">>) \o Sep \o from \o Sep
         \o numeral(timestamp) \o Sep \o slice(body)

\* The texts and phone numbers of the deliveries are short and hold no "::":
\* each goes into the key as one symbol.
chars(x) == <<ToString(x)>>

\* ------------------------------------------------------------ state
VARIABLES
  now,        \* Date.now(), in seconds
  ticks,      \* clock advances so far
  bookings,   \* Booking table: id -> row; ids are handed out in creation order
  messages,   \* Message table: id -> row
  pets,       \* Pet table: sequence of rows
  req,        \* per webhook delivery: its position and local variables
  rp,         \* per reparseAll run: its position, message list and locals
  userOps,    \* confirm / decline clicks so far
  reparses,   \* reparseAll runs started so far
  calendar,   \* the ids of the Bookings that have a busy event in the calendar
  issued,     \* per table, how many ids it has handed out (an id is never reused)
  calc        \* a call of a pure function under test: its inputs and its result

\* everything but calc
store == <<now, ticks, bookings, messages, pets, req, rp, userOps, reparses, calendar, issued>>

vars == <<now, ticks, bookings, messages, pets, req, rp, userOps, reparses, calendar, issued,
          calc>>

NoCalc == [fn |-> "none"]

IdleReq == [pc |-> "idle", from |-> "", body |-> TxtThanks, timestamp |-> NoTs,
            receivedAt |-> 0, label |-> "null", idx |-> 0, found |-> NoBooking,
            cur |-> 0, bookingId |-> 0, svc |-> "none", result |-> "none"]

IdleRp == [pc |-> "idle", queue |-> << >>, found |-> NoBooking, result |-> "none"]

Runs == {1, 2}


\* an empty record store, nothing in the calendar, no request under way
Blank ==
  /\ now = Now0
  /\ ticks = 0
  /\ bookings = << >>
  /\ messages = << >>
  /\ pets = << >>
  /\ req = [d \in Reqs |-> IdleReq]
  /\ rp = [k \in Runs |-> IdleRp]
  /\ userOps = 0
  /\ reparses = 0
  /\ calendar = {}
  /\ issued = [Booking |-> 0, Message |-> 0]

Init ==
  /\ Blank
  /\ calc = NoCalc

\* ------------------------------------------------------------ faulty variants
\* Deliberately wrong versions of some steps, used to show that the
\* properties below tell the handler from a broken one.
receivedAtAlwaysNow(timestamp, clock) == clock

DedupeStepNoReturn(r, msgs) == [r EXCEPT !.pc = "classify"]

UniqueEidUnchecked(msgs, eid) == TRUE

isCandidateWithWalk(kw, segs, svcGuess) == kw # {} /\ Len(segs) > 0

createsNewOnlyIfMissing(found) == found = NoBooking

patchServiceAlways(found, svc) == svc # "Unspecified"

cutoffNoGrace(clock) == clock

afterThrowRollsBack(msgs, eid) ==
  [i \in {j \in DOMAIN msgs : msgs[j].eid # eid} |-> msgs[i]]

AfterClassifyTrustingOracle(r, label, svcGuess) ==
  IF label = "GENERAL" THEN [r EXCEPT !.pc = "store", !.label = label, !.svc = svcGuess]
  ELSE [r EXCEPT !.pc = "find", !.label = label, !.idx = 1, !.svc = svcGuess]

\* ----------------------------------------------------- record store
Max(S) == CHOOSE x \in S : \A y \in S : y <= x

\* the next id of a table that has handed out n ids
NewId(n) == n + 1

Insert(table, id, row) == [i \in DOMAIN table \cup {id} |->
                             IF i \in DOMAIN table THEN table[i] ELSE row]

\* the ids handed out by a table nothing was ever deleted from

Snap(bks, id) == [id |-> id, status |-> bks[id].status, serviceType |-> bks[id].serviceType,
                  startAt |-> bks[id].startAt, endAt |-> bks[id].endAt]

\* prisma.booking.findFirst({ where: sender and startAt within two days of the
\* segment's start, orderBy: { createdAt: 'desc' } })
Matching(bks, from, seg) ==
  {id \in DOMAIN bks :
     /\ (bks[id].clientPhone = from \/ bks[id].roverRelay = from)
     /\ bks[id].startAt >= seg.startAt - WINDOW_DAYS * DAY
     /\ bks[id].startAt <= seg.startAt + WINDOW_DAYS * DAY}

findFirst(bks, from, seg) ==
  IF Matching(bks, from, seg) = {} THEN NoBooking
  ELSE Snap(bks, Max(Matching(bks, from, seg)))

\* prisma.message.findUnique({ where: { eid } })
findUnique(msgs, eid) == {i \in DOMAIN msgs : msgs[i].eid = eid}

Abs_(x) == IF x < 0 THEN -x ELSE x

\* ------------------------------------------------ the webhook handler
Eid(r) == buildEID(<<"sms">>, chars(r.from), << >>, chars(r.from), chars(r.body), r.receivedAt)

Keywords(r) == findKeywords(r.body)
Segments(r) == parseSegments(r.body, r.receivedAt)

\* strict gate: keywords AND at least one segment AND not purely "Walk"
isCandidate(kw, segs, svcGuess) ==
  kw # {} /\ Len(segs) > 0 /\ svcGuess # "Walk"

\* line 328: new Date(Number(timestamp) || Date.now())
receivedAt(timestamp, clock) == IF timestamp # NoTs THEN timestamp ELSE clock

\* the run finished (returned a response): its locals are gone, the payload
\* and the outcome are remembered
Finish(r, result) ==
  [IdleReq EXCEPT !.pc = "done", !.result = result, !.from = r.from, !.body = r.body,
                  !.timestamp = r.timestamp, !.receivedAt = r.receivedAt]

\* lines 307-336: the payload is read, receivedAt and the EID are computed
Receive(d, from, body, timestamp) ==
  /\ req[d].pc = "idle"
  /\ \A e \in Reqs : e < d => req[e].pc # "idle"
  /\ req' = [req EXCEPT ![d] = [IdleReq EXCEPT
        !.pc = "dedupe", !.from = from, !.body = body, !.timestamp = timestamp,
        !.receivedAt = receivedAt(timestamp, now)]]
  /\ UNCHANGED <<calc, calendar, issued, now, ticks, bookings, messages, pets, rp, userOps, reparses>>

\* lines 337-340: EID dedupe, before any write
DedupeStep(r, msgs) ==
  IF findUnique(msgs, Eid(r)) # {} THEN Finish(r, "deduped")
  ELSE [r EXCEPT !.pc = "classify"]

Dedupe(d) ==
  /\ req[d].pc = "dedupe"
  /\ \/ req' = [req EXCEPT ![d] = DedupeStep(req[d], messages)]
     \/ req' = [req EXCEPT ![d] = Finish(req[d], "error")]
  /\ UNCHANGED <<calc, calendar, issued, now, ticks, bookings, messages, pets, rp, userOps, reparses>>

\* lines 342-364: the oracle's answer (or its failure, which is swallowed), then
\* the heuristics; svcGuess is computed here, with the clock of this moment
AfterClassify(r, label, svcGuess) ==
  IF isCandidate(Keywords(r), Segments(r), svcGuess)
  THEN [r EXCEPT !.pc = "find", !.label = label, !.idx = 1, !.svc = svcGuess]
  ELSE [r EXCEPT !.pc = "store", !.label = label, !.svc = svcGuess]

Classify(d, label) ==
  /\ req[d].pc = "classify"
  /\ req' = [req EXCEPT ![d] = AfterClassify(req[d], label, classifyService(req[d].body, now))]
  /\ UNCHANGED <<calc, calendar, issued, now, ticks, bookings, messages, pets, rp, userOps, reparses>>

\* line 370: inferredSvc
inferredSvc(svcGuess, seg) ==
  IF svcGuess # "Unspecified" THEN svcGuess ELSE seg.serviceHint

\* lines 373-382: look for a recent booking of the thread near this start date
FindBooking(d) ==
  /\ req[d].pc = "find"
  /\ \/ req' = [req EXCEPT ![d].found = findFirst(bookings, req[d].from, Segments(req[d])[req[d].idx]),
                           ![d].pc = "write"]
     \/ req' = [req EXCEPT ![d] = Finish(req[d], "error")]
  /\ UNCHANGED <<calc, calendar, issued, now, ticks, bookings, messages, pets, rp, userOps, reparses>>

\* lines 385-397: the row of a Booking created from a segment
NewBooking(d, r, seg) ==
  [source |-> "SMS", clientPhone |-> r.from, roverRelay |-> "",
   serviceType |-> inferredSvc(r.svc, seg), startAt |-> seg.startAt, endAt |-> seg.endAt,
   status |-> "PENDING", by |-> d]

\* lines 399-409: the patch of a matched Booking, computed from the row as read
patchService(found, svc) ==
  found.serviceType = "Unspecified" /\ svc # "Unspecified"

needDates(found, seg) ==
  \/ Abs_(found.startAt - seg.startAt) > TOLERANCE
  \/ Abs_(found.endAt - seg.endAt) > TOLERANCE

Patched(row, found, svc, seg) ==
  [row EXCEPT
     !.serviceType = IF patchService(found, svc) THEN svc ELSE @,
     !.startAt = IF needDates(found, seg) THEN seg.startAt ELSE @,
     !.endAt   = IF needDates(found, seg) THEN seg.endAt ELSE @]

\* line 384: a missing or CANCELED match gets a fresh Booking
createsNew(found) == found = NoBooking \/ found.status = "CANCELED"

\* lines 443-445: after a segment, remember the first booking and move on
NextSegment(r) ==
  LET r1 == [r EXCEPT !.bookingId = IF r.idx = 1 THEN r.cur ELSE @]
  IN  IF r.idx < Len(Segments(r))
      THEN [r1 EXCEPT !.idx = r.idx + 1, !.pc = "find"]
      ELSE [r1 EXCEPT !.pc = "store"]

\* with no pet name in the text the pet loop awaits nothing
AfterWrite(r) ==
  IF extractPetNames(r.body) = {} THEN NextSegment(r) ELSE [r EXCEPT !.pc = "pets"]

\* lines 384-413: create, or patch what findFirst returned
WriteBooking(d) ==
  LET r   == req[d]
      seg == Segments(r)[r.idx]
  IN
  /\ r.pc = "write"
  /\ \/ /\ createsNew(r.found)
        /\ bookings' = Insert(bookings, NewId(issued.Booking), NewBooking(d, r, seg))
        /\ issued' = [issued EXCEPT !.Booking = NewId(@)]
        /\ req' = [req EXCEPT ![d] = AfterWrite([r EXCEPT !.cur = NewId(issued.Booking)])]
     \/ /\ ~createsNew(r.found)
        /\ r.found.id \in DOMAIN bookings
        /\ bookings' = [bookings EXCEPT ![r.found.id] =
                          Patched(@, r.found, inferredSvc(r.svc, seg), seg)]
        /\ req' = [req EXCEPT ![d] = AfterWrite([r EXCEPT !.cur = r.found.id])]
        /\ UNCHANGED issued
     \/ /\ req' = [req EXCEPT ![d] = Finish(r, "error")]
        /\ UNCHANGED <<bookings, issued>>
  /\ UNCHANGED <<calc, calendar, now, ticks, messages, pets, rp, userOps, reparses>>

\* lines 416-441: best-effort pet linking; every failure inside is swallowed, so
\* the step ends with the pets linked, created but not linked, or untouched
LinkedNames(bid) == {pets[i].name : i \in {j \in DOMAIN pets : pets[j].bookingId = bid}}

AddPets(seq, names, bid) ==
  LET RECURSIVE Add(_, _)
      Add(acc, S) == IF S = {} THEN acc
                     ELSE LET n == CHOOSE x \in S : TRUE
                          IN  Add(Append(acc, [name |-> n, bookingId |-> bid]), S \ {n})
  IN  Add(seq, names)

AttachPets(d) ==
  LET r == req[d]
      missing == extractPetNames(r.body) \ LinkedNames(r.cur)
  IN
  /\ r.pc = "pets"
  /\ \/ pets' = AddPets(pets, missing, r.cur)
     \/ pets' = AddPets(pets, missing, 0)
     \/ pets' = pets
  /\ req' = [req EXCEPT ![d] = NextSegment(r)]
  /\ UNCHANGED <<calc, calendar, issued, now, ticks, bookings, messages, rp, userOps, reparses>>

\* migration.sql line 32: CREATE UNIQUE INDEX "Message_eid_key" ON "Message"("eid")
UniqueEid(msgs, eid) == findUnique(msgs, eid) = {}

\* lines 447-475: the row of the inbound Message
NewMessage(r, clock) ==
  [eid |-> Eid(r), threadId |-> r.from, direction |-> "IN", channel |-> "SMS",
   body |-> r.body, createdAt |-> clock, isRead |-> FALSE,
   isBookingCandidate |-> isCandidate(Keywords(r), Segments(r), r.svc),
   keywords |-> Keywords(r),
   dates |-> [i \in 1..Len(Segments(r)) |->
                [startAt |-> Segments(r)[i].startAt, endAt |-> Segments(r)[i].endAt]],
   classifyLabel |-> r.label, bookingId |-> r.bookingId]

\* lines 455-475, 484-487: store the Message; a store failure, the unique
\* index included, is caught and answered with a server error
StoreMessage(d) ==
  /\ req[d].pc = "store"
  /\ \/ /\ UniqueEid(messages, Eid(req[d]))
        /\ messages' = Insert(messages, NewId(issued.Message), NewMessage(req[d], now))
        /\ issued' = [issued EXCEPT !.Message = NewId(@)]
        /\ req' = [req EXCEPT ![d].pc = "notify"]
     \/ /\ req' = [req EXCEPT ![d] = Finish(req[d], "error")]
        /\ UNCHANGED <<messages, issued>>
  /\ UNCHANGED <<calc, calendar, now, ticks, bookings, pets, rp, userOps, reparses>>

\* lines 484-487: the catch block logs and answers 500; it undoes nothing
afterThrow(msgs, eid) == msgs

\* lines 477-483: sendPushAll, then the answer.  Pushes that fail are settled
\* inside sendPushAll; a throw of the call itself lands in the catch block.
Notify(d) ==
  /\ req[d].pc = "notify"
  /\ \/ /\ req' = [req EXCEPT ![d] = Finish(req[d], "ok")]
        /\ UNCHANGED messages
     \/ /\ req' = [req EXCEPT ![d] = Finish(req[d], "error")]
        /\ messages' = afterThrow(messages, Eid(req[d]))
  /\ UNCHANGED <<calc, calendar, issued, now, ticks, bookings, pets, rp, userOps, reparses>>

\* ------------------------------------------------- the API router
\* api.post('/bookings'): manual entry; serviceType defaults to Unspecified,
\* status is PENDING unless CONFIRMED is asked for
ManualRows ==
  {[source |-> "Manual", clientPhone |-> ph, roverRelay |-> "", serviceType |-> svc,
    startAt |-> mk(d[1]) + d[3], endAt |-> mk(d[2]) + d[3], status |-> st, by |-> 0] :
     ph \in Senders \cup {OtherPhone}, svc \in {"Unspecified"},
     d \in {<<5, 7, 30>>, <<4, 4, 0>>}, st \in {"PENDING", "CONFIRMED"}}

ManualCreate(row) ==
  /\ Cardinality({id \in DOMAIN bookings : bookings[id].source = "Manual"}) < MaxManual
  /\ bookings' = Insert(bookings, NewId(issued.Booking), row)
  /\ issued' = [issued EXCEPT !.Booking = NewId(@)]
  /\ UNCHANGED <<calc, calendar, now, ticks, messages, pets, req, rp, userOps, reparses>>

\* services/calendar.js.  The calendar is connected and its calls succeed:
\* createOrUpdateBusyEvent leaves one event carrying the booking id,
\* deleteBusyEvent leaves none.
createOrUpdateBusyEvent(events, id) == events \cup {id}

deleteBusyEvent(events, id) == events \ {id}

\* api.post('/actions/confirm/:id'): whatever the status was, it becomes
\* CONFIRMED, and the busy event is written
Confirm(id) ==
  /\ userOps < MaxUserOps
  /\ id \in DOMAIN bookings
  /\ bookings' = [bookings EXCEPT ![id].status = "CONFIRMED"]
  /\ calendar' = createOrUpdateBusyEvent(calendar, id)
  /\ userOps' = userOps + 1
  /\ UNCHANGED <<calc, issued, now, ticks, messages, pets, req, rp, reparses>>

\* api.post('/actions/decline/:id'): the status becomes CANCELED, the busy
\* event is removed
Decline(id) ==
  /\ userOps < MaxUserOps
  /\ id \in DOMAIN bookings
  /\ bookings' = [bookings EXCEPT ![id].status = "CANCELED"]
  /\ calendar' = deleteBusyEvent(calendar, id)
  /\ userOps' = userOps + 1
  /\ UNCHANGED <<calc, issued, now, ticks, messages, pets, req, rp, reparses>>

\* rows leave a table; their ids are not handed out again
Remove(table, ids) == [i \in DOMAIN table \ ids |-> table[i]]

\* Message_bookingId_fkey: ON DELETE SET NULL
setNull(msgs, ids) ==
  [i \in DOMAIN msgs |->
     IF msgs[i].bookingId \in ids THEN [msgs[i] EXCEPT !.bookingId = 0] ELSE msgs[i]]

\* api.delete('/bookings/:id'): the Messages of the Booking are deleted, then
\* its Pets, then the Booking.  A call that throws ends the handler (500) with
\* the earlier deletions done.  No calendar call is made.
DeleteBooking(id) ==
  LET linked  == {i \in DOMAIN messages : messages[i].bookingId = id}
      petsNot == SelectSeq(pets, LAMBDA p : p.bookingId # id)
  IN
  /\ id \in DOMAIN bookings
  /\ \/ /\ messages' = Remove(messages, linked)
        /\ pets' = petsNot
        /\ bookings' = Remove(bookings, {id})
     \/ /\ linked # {}
        /\ messages' = Remove(messages, linked)
        /\ pets' \in {pets, petsNot}
        /\ UNCHANGED bookings
  /\ UNCHANGED <<calc, calendar, issued, now, ticks, req, rp, userOps, reparses>>

\* the wall clock moves on by a day
Tick ==
  /\ ticks < MaxTicks
  /\ now' = now + DAY
  /\ ticks' = ticks + 1
  /\ UNCHANGED <<calc, calendar, issued, bookings, messages, pets, req, rp, userOps, reparses>>

\* the wall clock moves on by k days
Advance(k) ==
  /\ ticks < MaxTicks
  /\ now' = now + k * DAY
  /\ ticks' = ticks + 1
  /\ UNCHANGED <<calc, calendar, issued, bookings, messages, pets, req, rp, userOps, reparses>>

\* ------------------------------------------------------- maintenance
\* server.js 190-215.  cutoff = now - autoArchiveDays
cutoff(clock) == clock - GRACE_DAYS * DAY

Archivable(row, clock) ==
  row.status \in {"PENDING", "CONFIRMED", "CANCELED"} /\ row.endAt < cutoff(clock)

archived(bks, clock) ==
  [id \in DOMAIN bks |->
     IF Archivable(bks[id], clock) THEN [bks[id] EXCEPT !.status = "ARCHIVED"] ELSE bks[id]]

\* unread inbound messages of the threads in ids become read
markRead(msgs, ids) ==
  [i \in DOMAIN msgs |->
     IF msgs[i].bookingId \in ids /\ msgs[i].direction = "IN" /\ ~msgs[i].isRead
     THEN [msgs[i] EXCEPT !.isRead = TRUE] ELSE msgs[i]]

\* The sweep archives with one updateMany, then marks read the messages of the
\* ARCHIVED bookings updated within the last hour: those it has just archived,
\* and any of the other ARCHIVED bookings (the model keeps no updatedAt).
runMaintenance ==
  /\ bookings' = archived(bookings, now)
  /\ \E ids \in SUBSET {id \in DOMAIN bookings : archived(bookings, now)[id].status = "ARCHIVED"} :
       /\ {id \in DOMAIN bookings : Archivable(bookings[id], now)} \subseteq ids
       /\ messages' = markRead(messages, ids)
  /\ UNCHANGED <<calc, calendar, issued, now, ticks, pets, req, rp, userOps, reparses>>

\* ------------------------------------------------------- admin clean-up
\* server.js 99-120.  The window of the demo residue, 2025-11-12 up to
\* 2025-11-15; day 0 of the model is its first day.
DemoStart == 0 * DAY
DemoEnd   == 3 * DAY

\* createdAt in the window, a candidate, and
\* extractedDatesJson: { contains: '2025-11-12' }
DemoMessages(msgs) ==
  {i \in DOMAIN msgs :
     /\ msgs[i].createdAt >= DemoStart /\ msgs[i].createdAt < DemoEnd
     /\ msgs[i].isBookingCandidate
     /\ \E j \in DOMAIN msgs[i].dates :
          \/ startOfDay(msgs[i].dates[j].startAt) = DemoStart
          \/ startOfDay(msgs[i].dates[j].endAt) = DemoStart}

DemoBookings(bks) ==
  {id \in DOMAIN bks : /\ bks[id].startAt >= DemoStart /\ bks[id].startAt < DemoEnd
                        /\ bks[id].status = "PENDING"}

\* The Pet table's foreign key is not in the migrations at hand: the Pets of a
\* deleted Booking go with it or stay behind unlinked.
petsAfter(seq, ids) ==
  {SelectSeq(seq, LAMBDA p : p.bookingId \notin ids),
   [i \in DOMAIN seq |-> IF seq[i].bookingId \in ids
                          THEN [seq[i] EXCEPT !.bookingId = 0] ELSE seq[i]]}

\* app.post('/admin/cleanup-demo'): message.deleteMany, then booking.deleteMany;
\* if the second call throws, the first has been done
CleanupDemo ==
  /\ DemoMessages(messages) \cup DemoBookings(bookings) # {}
  /\ \/ /\ messages' = setNull(Remove(messages, DemoMessages(messages)), DemoBookings(bookings))
        /\ bookings' = Remove(bookings, DemoBookings(bookings))
        /\ pets' \in petsAfter(pets, DemoBookings(bookings))
     \/ /\ DemoMessages(messages) # {}
        /\ messages' = Remove(messages, DemoMessages(messages))
        /\ UNCHANGED <<bookings, pets>>
  /\ UNCHANGED <<calc, calendar, issued, now, ticks, req, rp, userOps, reparses>>

\* server.js 727-732, app.post('/admin/clear-all'): every Message, every Pet
\* (a failure there is swallowed), every Booking; a throw of the last call
\* leaves the Bookings
ClearAll ==
  /\ DOMAIN messages \cup DOMAIN bookings # {}
  /\ messages' = << >>
  /\ \/ /\ bookings' = << >>
        /\ pets' \in petsAfter(pets, DOMAIN bookings)
     \/ /\ DOMAIN messages # {}
        /\ pets' \in {pets, << >>}
        /\ UNCHANGED bookings
  /\ UNCHANGED <<calc, calendar, issued, now, ticks, req, rp, userOps, reparses>>

\* ------------------------------------------------------- admin reclassify
\* admin-classify.js 8-23.  What the oracle answers for a text is not the
\* program's to decide: a label, and a score that reaches 0.6 or does not.
OracleOutputs == [label : OracleLabels, scoreOk : BOOLEAN]

reclassified(m, out) ==
  [m EXCEPT !.isBookingCandidate = (out.label = "BOOKING_REQUEST" /\ out.scoreOk),
            !.classifyLabel = out.label]

\* The loop takes the messages oldest first and rewrites each from the oracle's
\* answer; a throw of the oracle ends it, the first n messages rewritten.
Reclassify ==
  /\ messages # << >>
  /\ \E n \in 1..Len(messages) : \E outs \in [1..n -> OracleOutputs] :
       messages' = [i \in DOMAIN messages |->
                      IF i <= n THEN reclassified(messages[i], outs[i]) ELSE messages[i]]
  /\ UNCHANGED <<calc, calendar, issued, now, ticks, bookings, pets, req, rp, userOps, reparses>>

\* ------------------------------------------------------- reparseAll
\* lines 849-859: the inbound SMS messages of the lookback window, oldest first
\* (createdAt never decreases with the id)
RECURSIVE Ascending(_)
Ascending(S) == IF S = {} THEN << >>
                ELSE LET m == CHOOSE x \in S : \A y \in S : x <= y
                     IN  <<m>> \o Ascending(S \ {m})

Scanned(msgs, clock) ==
  Ascending({i \in DOMAIN msgs :
               /\ msgs[i].direction = "IN"
               /\ msgs[i].channel = "SMS"
               /\ msgs[i].createdAt >= clock - LOOKBACK_DAYS * DAY})

\* the run is over: the route renders its counts ("ok") or answers 500 ("error")
Returned(result) == [IdleRp EXCEPT !.result = result]

\* POST /admin/intake/reparse calls reparseAll whenever it is asked to
RpStart(k) ==
  /\ rp[k].pc = "idle"
  /\ \A j \in Runs : j < k => rp[j].pc # "idle"
  /\ reparses < MaxReparse
  /\ reparses' = reparses + 1
  /\ rp' = [rp EXCEPT ![k] =
             IF Scanned(messages, now) = << >> THEN Returned("ok")
             ELSE [pc |-> "scan", queue |-> Scanned(messages, now), found |-> NoBooking,
                   result |-> "none"]]
  /\ UNCHANGED <<calc, calendar, issued, now, ticks, bookings, messages, pets, req, userOps>>

RpNext(q) == IF Len(q) > 1
             THEN [pc |-> "scan", queue |-> Tail(q), found |-> NoBooking, result |-> "none"]
             ELSE Returned("ok")

\* line 870: date-only or keyword-only messages count as candidates here
rpCandidate(kw, range) == range # NoRange \/ kw # {}

\* serializeRange(range)
serializeRange(range) ==
  IF range = NoRange THEN << >>
  ELSE <<[startAt |-> range.startAt, endAt |-> range.endAt]>>

\* lines 863-880: the message's extracted fields, computed afresh
rescanned(m) ==
  [m EXCEPT !.isBookingCandidate = rpCandidate(findKeywords(m.body),
                                               pickDateRange(m.body, m.createdAt)),
            !.keywords = findKeywords(m.body),
            !.dates = serializeRange(pickDateRange(m.body, m.createdAt))]

\* lines 863-885: refresh the message's extracted fields, then read its Booking.
\* The message's createdAt is the reference instant.
RpScan(k) ==
  LET id    == Head(rp[k].queue)
      m     == messages[id]
      kw    == findKeywords(m.body)
      range == pickDateRange(m.body, m.createdAt)
      cand  == rpCandidate(kw, range)
  IN
  /\ rp[k].pc = "scan"
  /\ \/ /\ messages' = [messages EXCEPT ![id] = rescanned(m)]
        /\ rp' = [rp EXCEPT ![k] =
                   IF cand /\ m.bookingId # 0 /\ range # NoRange
                   THEN [rp[k] EXCEPT !.pc = "patch",
                                      !.found = IF m.bookingId \in DOMAIN bookings
                                                THEN Snap(bookings, m.bookingId) ELSE NoBooking]
                   ELSE RpNext(rp[k].queue)]
     \/ /\ rp' = [rp EXCEPT ![k] = Returned("error")]
        /\ UNCHANGED messages
  /\ UNCHANGED <<calc, calendar, issued, now, ticks, bookings, pets, req, userOps, reparses>>

\* lines 886-893: only a PENDING booking is patched; the service is filled in
\* when the row read says Unspecified
rpPatches(found) == found # NoBooking /\ found.status = "PENDING"

rpService(found, svc) ==
  found.serviceType = "Unspecified" /\ svc # "Unspecified"

\* lines 895-904
rpDates(found, range) ==
  \/ Abs_(found.startAt - range.startAt) > TOLERANCE
  \/ Abs_(found.endAt - range.endAt) > TOLERANCE

\* faulty variant: the end of the stay is pushed out rather than set
RpPatchedDrifting(row, found, svc, range) ==
  [row EXCEPT
     !.serviceType = IF rpService(found, svc) THEN svc ELSE @,
     !.startAt = IF rpDates(found, range) THEN range.startAt ELSE @,
     !.endAt   = IF rpDates(found, range) THEN @ + DAY ELSE @]

RpPatched(row, found, svc, range) ==
  [row EXCEPT
     !.serviceType = IF rpService(found, svc) THEN svc ELSE @,
     !.startAt = IF rpDates(found, range) THEN range.startAt ELSE @,
     !.endAt   = IF rpDates(found, range) THEN range.endAt ELSE @]

\* lines 886-911
RpPatch(k) ==
  LET m     == messages[Head(rp[k].queue)]
      range == pickDateRange(m.body, m.createdAt)
  IN
  /\ rp[k].pc = "patch"
  /\ \/ /\ rpPatches(rp[k].found) /\ rp[k].found.id \in DOMAIN bookings
        /\ bookings' = [bookings EXCEPT ![rp[k].found.id] =
                          RpPatched(@, rp[k].found, classifyService(m.body, now), range)]
        /\ rp' = [rp EXCEPT ![k] = RpNext(rp[k].queue)]
     \/ /\ ~rpPatches(rp[k].found)
        /\ rp' = [rp EXCEPT ![k] = RpNext(rp[k].queue)]
        /\ UNCHANGED bookings
     \/ /\ rp' = [rp EXCEPT ![k] = Returned("error")]
        /\ UNCHANGED bookings
  /\ UNCHANGED <<calc, calendar, issued, now, ticks, messages, pets, req, userOps, reparses>>

\* lines 845-915: a whole run that nothing interleaves with and no call of
\* which fails, as a function of the store it starts from
RECURSIVE reparseLoop(_, _, _, _)
reparseLoop(bks, msgs, queue, clock) ==
  IF queue = << >> THEN [bookings |-> bks, messages |-> msgs]
  ELSE
    LET id    == Head(queue)
        m     == msgs[id]
        range == pickDateRange(m.body, m.createdAt)
        cand  == rpCandidate(findKeywords(m.body), range)
        found == IF m.bookingId \in DOMAIN bks THEN Snap(bks, m.bookingId) ELSE NoBooking
        bks1  == IF cand /\ m.bookingId # 0 /\ range # NoRange /\ rpPatches(found)
                 THEN [bks EXCEPT ![found.id] =
                         RpPatched(@, found, classifyService(m.body, clock), range)]
                 ELSE bks
    IN reparseLoop(bks1, [msgs EXCEPT ![id] = rescanned(m)], Tail(queue), clock)

reparseAll(bks, msgs, clock) == reparseLoop(bks, msgs, Scanned(msgs, clock), clock)

\* --------------------------------------------------- specifications
\* Spec: deliveries of the relay interleave at every awaited call.  The relay
\* stamps its messages; the oracle is not configured (its call throws and is
\* swallowed).
RaceTexts == {TxtThanks, TxtBoard, TxtWalk, TxtDateOnly, TxtKwOnly}

Next ==
  \/ \E d \in Reqs, from \in Senders, body \in RaceTexts : Receive(d, from, body, ProviderTs)
  \/ \E d \in Reqs : Dedupe(d)
  \/ \E d \in Reqs : Classify(d, "null")
  \/ \E d \in Reqs : FindBooking(d)
  \/ \E d \in Reqs : WriteBooking(d)
  \/ \E d \in Reqs : AttachPets(d)
  \/ \E d \in Reqs : StoreMessage(d)
  \/ \E d \in Reqs : Notify(d)

Spec == Init /\ [][Next]_vars

\* SpecSeq: deliveries arrive one after the other (a retry follows the answer
\* to the delivery before it), with or without a timestamp, the clock moving
\* between them; each can still fail at any of its record-store calls.
Quiet ==
  /\ \A k \in Runs : rp[k].pc = "idle"
  /\ \A d \in Reqs : req[d].pc \in {"idle", "done"}

SeqTexts == {TxtThanks, TxtMulti, TxtTomorrow}

NextSeq ==
  \/ \E d \in Reqs, from \in Senders, body \in SeqTexts, ts \in Stamps :
       Quiet /\ Receive(d, from, body, ts)
  \/ \E d \in Reqs : Dedupe(d)
  \/ \E d \in Reqs : Classify(d, "null")
  \/ \E d \in Reqs : FindBooking(d)
  \/ \E d \in Reqs : WriteBooking(d)
  \/ \E d \in Reqs : StoreMessage(d)
  \/ \E d \in Reqs : Notify(d)
  \/ Quiet /\ Tick

SpecSeq == Init /\ [][NextSeq]_vars

\* SpecThread: the store already holds a Booking entered by hand (and perhaps
\* confirmed or declined since); deliveries of the thread interleave with each
\* other and with one run of the batch job.
ThreadRows ==
  {r \in ManualRows : r.clientPhone \in Senders /\ r.startAt = mk(4)}
  \cup {[r EXCEPT !.status = "CANCELED"] : r \in {x \in ManualRows :
          x.clientPhone \in Senders /\ x.startAt = mk(4) /\ x.status = "PENDING"}}
  \cup {r \in ManualRows :
          r.clientPhone \in Senders /\ r.startAt # mk(4) /\ r.status = "PENDING"}

InitThread ==
  /\ now = Now0
  /\ ticks = 0
  /\ \E row \in ThreadRows : bookings = <<row>>
  /\ messages = << >>
  /\ pets = << >>
  /\ req = [d \in Reqs |-> IdleReq]
  /\ rp = [k \in Runs |-> IdleRp]
  /\ userOps = 0
  /\ reparses = 0
  /\ calendar = {}
  /\ issued = [Booking |-> 1, Message |-> 0]
  /\ calc = NoCalc

ThreadTexts == {TxtOvernight, TxtDaycare}

NextThread ==
  \/ \E d \in Reqs, from \in Senders, body \in ThreadTexts : Receive(d, from, body, ProviderTs)
  \/ \E d \in Reqs : Dedupe(d)
  \/ \E d \in Reqs : Classify(d, "null")
  \/ \E d \in Reqs : FindBooking(d)
  \/ \E d \in Reqs : WriteBooking(d)
  \/ \E d \in Reqs : StoreMessage(d)
  \/ \E d \in Reqs : Notify(d)
  \/ reparses = 0 /\ RpStart(1)
  \/ RpScan(1)
  \/ RpPatch(1)

SpecThread == InitThread /\ [][NextThread]_vars

\* SpecLife: the life of Bookings.  Bookings are entered by hand or created by
\* a delivery, confirmed or declined by the sitter, and archived by the sweep
\* as the days pass, one operation after the other.  One message arrives.
LifeRows == {r \in ManualRows : r.startAt = mk(4)}

Jumps == {5, 12}

LifeTexts == {TxtOvernight}

NextLife ==
  \/ \E row \in LifeRows : Quiet /\ ManualCreate(row)
  \/ \E id \in DOMAIN bookings : Quiet /\ Confirm(id)
  \/ \E id \in DOMAIN bookings : Quiet /\ Decline(id)
  \/ \E k \in Jumps : Quiet /\ Advance(k)
  \/ Quiet /\ runMaintenance
  \/ \E from \in Senders, body \in LifeTexts : Quiet /\ Receive(1, from, body, ProviderTs)
  \/ \E d \in Reqs : Dedupe(d)
  \/ \E d \in Reqs : Classify(d, "null")
  \/ \E d \in Reqs : FindBooking(d)
  \/ \E d \in Reqs : WriteBooking(d)
  \/ \E d \in Reqs : StoreMessage(d)
  \/ \E d \in Reqs : Notify(d)

SpecLife == Init /\ [][NextLife]_vars

\* SpecOracle: the oracle is configured.  Deliveries arrive one after the
\* other, the oracle answering each with any label or failing, and the admin
\* reclassifies the stored messages.
OracleTexts == {TxtThanks, TxtOvernight, TxtDaycare}

OracleAnswers == OracleLabels \cup {"null"}

NextOracle ==
  \/ \E d \in Reqs, from \in Senders, body \in OracleTexts :
       Quiet /\ Receive(d, from, body, ProviderTs)
  \/ \E d \in Reqs : Dedupe(d)
  \/ \E d \in Reqs, label \in OracleAnswers : Classify(d, label)
  \/ \E d \in Reqs : FindBooking(d)
  \/ \E d \in Reqs : WriteBooking(d)
  \/ \E d \in Reqs : StoreMessage(d)
  \/ \E d \in Reqs : Notify(d)
  \/ Reclassify

SpecOracle == Init /\ [][NextOracle]_vars

\* SpecBatch: the admin posts /admin/intake/reparse, perhaps again while a run
\* is still between two awaited calls.  Two messages arrive one after the
\* other when no run is in progress, stamped by the relay or not, today or a
\* day after they were sent.
BatchTexts == {TxtTomorrow, TxtDateOnly}

NextBatch ==
  \/ \E d \in {1, 2}, from \in Senders, body \in BatchTexts, ts \in Stamps :
       Quiet /\ Receive(d, from, body, ts)
  \/ \E d \in Reqs : Dedupe(d)
  \/ \E d \in Reqs : Classify(d, "null")
  \/ \E d \in Reqs : FindBooking(d)
  \/ \E d \in Reqs : WriteBooking(d)
  \/ \E d \in Reqs : StoreMessage(d)
  \/ \E d \in Reqs : Notify(d)
  \/ Quiet /\ Tick
  \/ \E k \in Runs : RpStart(k)
  \/ \E k \in Runs : RpScan(k)
  \/ \E k \in Runs : RpPatch(k)

SpecBatch == Init /\ [][NextBatch]_vars

\* SpecAdmin: the sitter's and the admin's operations on a store that one
\* delivery and manual entry fill: confirm, decline, delete a Booking, the
\* maintenance sweep as the days pass, and the two admin clean-ups, one
\* operation after the other.  Manual entry comes first.
NextAdmin ==
  \/ \E row \in {r \in ManualRows : r.clientPhone \in Senders /\ r.startAt = mk(4)} :
       issued.Booking < MaxManual /\ Quiet /\ ManualCreate(row)
  \/ \E id \in DOMAIN bookings : Quiet /\ Confirm(id)
  \/ \E id \in DOMAIN bookings : Quiet /\ Decline(id)
  \/ \E id \in DOMAIN bookings : Quiet /\ DeleteBooking(id)
  \/ Quiet /\ CleanupDemo
  \/ Quiet /\ ClearAll
  \/ \E k \in Jumps : Quiet /\ Advance(k)
  \/ Quiet /\ runMaintenance
  \/ \E from \in Senders, body \in {TxtToday, TxtThanks} : Quiet /\ Receive(1, from, body, ProviderTs)
  \/ \E d \in Reqs : Dedupe(d)
  \/ \E d \in Reqs : Classify(d, "null")
  \/ \E d \in Reqs : FindBooking(d)
  \/ \E d \in Reqs : WriteBooking(d)
  \/ \E d \in Reqs : StoreMessage(d)
  \/ \E d \in Reqs : Notify(d)

SpecAdmin == Init /\ [][NextAdmin]_vars

\* SpecEid: buildEID on its own.  Two calls are drawn from a small set of
\* inputs: each field present or absent, fields that hold the separator,
\* bodies that differ early, and bodies longer than the slice that differ only
\* in their last character.
Long(c) == [i \in 1..(SLICE + 1) |-> IF i = SLICE + 1 THEN c ELSE "x"]

EidInputs ==
  [platform : {<< >>, <<"s", "m", "s">>},
   threadId : {<< >>, <<"t">>},
   providerMessageId : {<< >>, <<"m">>},
   from : {<<"a">>, <<"a", ":", ":", "1">>},
   body : {<< >>, <<"h", "i">>, <<":", ":", "h", "i">>, Long("a"), Long("b")},
   timestamp : {0, 1, 2}]

keyOf(in) == buildEID(in.platform, in.threadId, in.providerMessageId,
                      in.from, in.body, in.timestamp)

InitEid ==
  /\ Blank
  /\ \E a, b \in EidInputs : calc = [fn |-> "buildEID", a |-> a, b |-> b, done |-> FALSE]

BuildBoth ==
  /\ calc.fn = "buildEID" /\ ~calc.done
  /\ calc' = [fn |-> "buildEID", a |-> calc.a, b |-> calc.b, done |-> TRUE,
              ka |-> keyOf(calc.a), kb |-> keyOf(calc.b)]
  /\ UNCHANGED store

NextEid == BuildBoth

SpecEid == InitEid /\ [][NextEid]_vars

\* SpecDates: parseSegments on its own.  A text is drawn whose dates are
\* written without a year: an explicit range, one or two single dates with or
\* without a connector between them, a compact range, or the nth weekend of
\* a month; days that their month does not have, a month number 13 and
\* ranges that run backwards are among them.  The reference instant is day 0,
\* 10:00, or 28 December of the same year.
DateTexts ==
  LET Dated(es) == [words |-> {}, dates |-> es, pets |-> {}]
      Singles ==
        {Slash(m, d, link) : m \in {2, 11, 13}, d \in {20, 30}, link \in BOOLEAN}
        \cup {Named(mm, dd, link) : mm \in {0, 10}, dd \in {3, 20}, link \in BOOLEAN}
  IN
  {Dated(<<Range(m1, d1, m2, d2)>>) : m1 \in {2, 11}, d1 \in {15, 20, 30},
                                       m2 \in {2, 11}, d2 \in {15, 20, 30}}
  \cup {Dated(<<a>>) : a \in {x \in Singles : ~x.link}}
  \cup {Dated(<<a, b>>) : a \in Singles, b \in {x \in Singles : ~x.link}}
  \cup {Dated(<<Compact(10, d[1], d[2], FALSE)>>) : d \in {<<13, 18>>, <<3, 8>>, <<20, 10>>}}
  \cup {Dated(<<WeekendOf(n, mm)>>) : n \in 1..5, mm \in {0, 1, 10}}

InitDates ==
  /\ Blank
  /\ \E text \in DateTexts, ref \in {Now0, Now0 + 46 * DAY} :
       calc = [fn |-> "parseSegments", text |-> text, ref |-> ref, done |-> FALSE]

Parse ==
  /\ calc.fn = "parseSegments" /\ ~calc.done
  /\ calc' = [fn |-> "parseSegments", text |-> calc.text, ref |-> calc.ref, done |-> TRUE,
              segs |-> parseSegments(calc.text, calc.ref)]
  /\ UNCHANGED store

NextDates == Parse

SpecDates == InitDates /\ [][NextDates]_vars

\* ------------------------------------------------------------ properties
Received(d) == req[d].pc # "idle"
Done(d) == req[d].pc = "done"
SamePayload(d1, d2) ==
  /\ Received(d1) /\ Received(d2)
  /\ req[d1].from = req[d2].from
  /\ req[d1].body = req[d2].body
  /\ req[d1].timestamp = req[d2].timestamp
Stamped(d) == req[d].timestamp # NoTs
Created(d) == {id \in DOMAIN bookings : bookings[id].by = d}
Stored(eid) == {i \in DOMAIN messages : messages[i].eid = eid}
Stepped(d) == req'[d] # req[d]

\* In SpecSeq the slots are taken in order and one at a time: d1 < d2 means
\* that d1 was answered before d2 arrived.
Redelivered(d1, d2) ==
  /\ d1 < d2 /\ SamePayload(d1, d2) /\ Stamped(d1)
  /\ Done(d1) /\ req[d1].result = "ok"
  /\ Done(d2) /\ req[d2].result # "error"

C2_LookupBeforeWrites ==
  [][\A d \in Reqs :
       (Stepped(d) /\ req[d].pc \in {"idle", "dedupe"}) =>
         /\ bookings' = bookings /\ messages' = messages /\ pets' = pets
         /\ (req[d].pc = "dedupe" /\ Stored(Eid(req[d])) # {}) => req'[d].pc = "done"]_vars

C2_Witness ==
  \E d, e \in Reqs :
    /\ Done(d) /\ req[d].result = "deduped"
    /\ Done(e) /\ req[e].result = "ok" /\ Created(e) # {}
    /\ Eid(req[d]) = Eid(req[e])
    /\ Created(d) = {}

\* C3: concurrent deliveries with the same EID do not create duplicate
\* Bookings: of the deliveries of one EID, at most one has created Bookings.
C3_NoDuplicateBookings ==
  \A d1, d2 \in Reqs :
    (d1 # d2 /\ Received(d1) /\ Received(d2) /\ Eid(req[d1]) = Eid(req[d2])) =>
      (Created(d1) = {} \/ Created(d2) = {})

\* C4: no two persisted Messages share an EID.
C4_UniqueEid ==
  \A i, j \in DOMAIN messages : messages[i].eid = messages[j].eid => i = j

C4_Witness ==
  \E d1, d2 \in Reqs :
    /\ d1 # d2 /\ Eid(req[d1]) = Eid(req[d2])
    /\ Done(d1) /\ req[d1].result = "ok"
    /\ req[d2].pc = "store" /\ Created(d2) # {}
    /\ Cardinality(Stored(Eid(req[d1]))) = 1

\* C5: two deliveries of the same payload (sender, body, timestamp) compute the
\* same EID, also when the timestamp is absent or not a number.
C5_SamePayloadSameEid ==
  \A d1, d2 \in Reqs : SamePayload(d1, d2) => Eid(req[d1]) = Eid(req[d2])

\* lines 366-445 run from the first segment to the last with nothing in
\* between: the Bookings one successful delivery leaves behind
RECURSIVE bookingLoop(_, _, _, _)
bookingLoop(bks, r, segs, i) ==
  IF i > Len(segs) THEN bks
  ELSE LET found == findFirst(bks, r.from, segs[i])
       IN  bookingLoop(IF createsNew(found)
                       THEN Insert(bks, NewId(IF DOMAIN bks = {} THEN 0 ELSE Max(DOMAIN bks)), NewBooking(0, r, segs[i]))
                       ELSE [bks EXCEPT ![found.id] =
                               Patched(@, found, inferredSvc(r.svc, segs[i]), segs[i])],
                       r, segs, i + 1)

SingleDelivery(r) ==
  IF isCandidate(Keywords(r), Segments(r), r.svc)
  THEN bookingLoop(<< >>, r, Segments(r), 1)
  ELSE << >>

\* d1 failed with a server error, d2 is the redelivery of the same stamped
\* payload and succeeded, and nothing else was ever delivered
Retried(d1, d2) ==
  /\ d1 < d2 /\ SamePayload(d1, d2) /\ Stamped(d1)
  /\ Done(d1) /\ req[d1].result = "error"
  /\ Done(d2) /\ req[d2].result = "ok"
  /\ \A e \in Reqs \ {d1, d2} : ~Received(e)

\* C6: a delivery that failed with a server error and is delivered again
\* successfully leaves exactly one Message and no more Bookings than a single
\* successful delivery would have created.
C6_RetrySafe ==
  \A d1, d2 \in Reqs : Retried(d1, d2) =>
    /\ Cardinality(Stored(Eid(req[d2]))) = 1
    /\ Cardinality(DOMAIN bookings) <=
         Cardinality(DOMAIN SingleDelivery([req[d2] EXCEPT
                                             !.svc = classifyService(req[d2].body, now)]))

\* the condition of lines 360-361, on the payload of a classified delivery
Qualifies(r) == Keywords(r) # {} /\ Len(Segments(r)) > 0 /\ r.svc # "Walk"

\* C7: a delivery writes a Booking only if the message has a date segment and a
\* booking keyword and its service is not Walk; otherwise the Message is stored
\* with no Booking and isBookingCandidate false.
C7_OnlyCandidatesBook ==
  [][\A d \in Reqs : Stepped(d) =>
       /\ bookings' # bookings => Qualifies(req[d])
       /\ (req[d].pc = "store" /\ ~Qualifies(req[d]) /\ req'[d].pc = "notify") =>
            \E i \in DOMAIN messages' \ DOMAIN messages :
              /\ messages'[i].eid = Eid(req[d])
              /\ messages'[i].bookingId = 0
              /\ messages'[i].isBookingCandidate = FALSE]_vars

C7_Witness ==
  /\ \E d \in Reqs : \E i \in DOMAIN messages :
       /\ Done(d) /\ req[d].result = "ok" /\ req[d].body = TxtWalk
       /\ messages[i].eid = Eid(req[d])
       /\ messages[i].bookingId = 0 /\ ~messages[i].isBookingCandidate
       /\ Created(d) = {}
  /\ \E e \in Reqs : Done(e) /\ req[e].body = TxtBoard /\ Created(e) # {}

\* C8: when the Booking matched for a segment is CANCELED the handler creates a
\* new PENDING Booking for the segment and leaves every stored Booking, the
\* CANCELED one included, as it was.
C8_CanceledNotReused ==
  [][\A d \in Reqs :
       (Stepped(d) /\ req[d].pc = "write" /\ req[d].found.status = "CANCELED"
          /\ req'[d].result # "error") =>
         /\ \A id \in DOMAIN bookings : id \in DOMAIN bookings' /\ bookings'[id] = bookings[id]
         /\ \E id \in DOMAIN bookings' \ DOMAIN bookings :
              /\ DOMAIN bookings' = DOMAIN bookings \cup {id}
              /\ bookings'[id].status = "PENDING"
              /\ bookings'[id].startAt = Segments(req[d])[req[d].idx].startAt
              /\ bookings'[id].endAt = Segments(req[d])[req[d].idx].endAt
              /\ req'[d].cur = id]_vars

C8_Witness ==
  \E d \in Reqs :
    /\ req[d].pc \in {"store", "notify"}
    /\ req[d].found.status = "CANCELED"
    /\ bookings[req[d].found.id].status = "CANCELED"
    /\ req[d].cur \in Created(d)
    /\ bookings[req[d].cur].status = "PENDING"

\* C9: intake never changes the dates of a CONFIRMED Booking.
C9_ConfirmedDatesKept ==
  [][\A d \in Reqs : Stepped(d) =>
       \A id \in DOMAIN bookings :
         bookings[id].status = "CONFIRMED" =>
           /\ bookings'[id].startAt = bookings[id].startAt
           /\ bookings'[id].endAt = bookings[id].endAt]_vars

\* a write of intake or of reparseAll is under way for Booking id, and the row
\* it read for that Booking had serviceType Unspecified
ReadUnspecified(id) ==
  \/ \E d \in Reqs : /\ Stepped(d) /\ req[d].pc = "write"
                     /\ req[d].found.id = id /\ req[d].found.serviceType = "Unspecified"
  \/ \E k \in Runs : /\ rp'[k] # rp[k] /\ rp[k].pc = "patch"
                     /\ rp[k].found.id = id /\ rp[k].found.serviceType = "Unspecified"

Arrows ==
  {<<"PENDING", "CONFIRMED">>, <<"PENDING", "CANCELED">>, <<"CONFIRMED", "CANCELED">>,
   <<"PENDING", "ARCHIVED">>, <<"CONFIRMED", "ARCHIVED">>, <<"CANCELED", "ARCHIVED">>}

\* C11: every change of a Booking's status is an arrow of the status machine
\* (PENDING to CONFIRMED, PENDING or CONFIRMED to CANCELED, any of the three to
\* ARCHIVED), so an ARCHIVED Booking never changes status again.
C11_StatusMachine ==
  [][\A id \in DOMAIN bookings :
       (id \in DOMAIN bookings' /\ bookings'[id].status # bookings[id].status) =>
         <<bookings[id].status, bookings'[id].status>> \in Arrows]_vars

\* C12: a run of the sweep sets ARCHIVED exactly on the PENDING, CONFIRMED or
\* CANCELED Bookings whose endAt is earlier than now minus the grace days, and
\* leaves the status of every other Booking alone.
C12_SweepArchivesExactly ==
  [][runMaintenance =>
       /\ DOMAIN bookings' = DOMAIN bookings
       /\ \A id \in DOMAIN bookings :
            bookings'[id].status =
              IF /\ bookings[id].status \in {"PENDING", "CONFIRMED", "CANCELED"}
                 /\ bookings[id].endAt < now - GRACE_DAYS * DAY
              THEN "ARCHIVED" ELSE bookings[id].status]_vars

C12_Witness ==
  \E id, other \in DOMAIN bookings :
    /\ bookings[id].status = "ARCHIVED"
    /\ bookings[other].status \in {"PENDING", "CONFIRMED", "CANCELED"}
    /\ bookings[other].endAt < now
    /\ bookings[other].endAt >= now - GRACE_DAYS * DAY

\* the Bookings a delivery leaves once classified, its loop run to the end
loopFrom(bks, r) == IF r.pc = "find" THEN bookingLoop(bks, r, Segments(r), 1) ELSE bks

\* C13: the oracle's answer never influences Booking data: for the same
\* payload and store, the delivery takes the same path and leaves the same
\* Bookings whatever the oracle answers, and when its call fails.
C13_OracleBlindBookings ==
  \A d \in Reqs : req[d].pc = "classify" =>
    \A label \in OracleAnswers :
      LET with    == AfterClassify(req[d], label, classifyService(req[d].body, now))
          without == AfterClassify(req[d], "null", classifyService(req[d].body, now))
      IN  /\ [with EXCEPT !.label = "null"] = without
          /\ loopFrom(bookings, with) = loopFrom(bookings, without)

C13_Witness ==
  \E d, e \in Reqs :
    /\ req[d].pc = "notify" /\ req[d].label = "GENERAL" /\ Created(d) # {}
    /\ Done(e) /\ req[e].result = "ok" /\ req[e].body # req[d].body

\* the deterministic gate on a stored message: a keyword and a date segment
Gate(m) == findKeywords(m.body) # {} /\ Len(parseSegments(m.body, m.createdAt)) > 0

\* C14: the oracle can only narrow candidacy: a Message that the deterministic
\* gate rejects never has isBookingCandidate true.
C14_OracleOnlyNarrows ==
  \A i \in DOMAIN messages : messages[i].isBookingCandidate => Gate(messages[i])

\* C15: notification is attempted only once the Message is stored, and a
\* notification step, failed or not, leaves Messages and Bookings as they were.
C15_NotifyAfterStore ==
  [][\A d \in Reqs :
       /\ req'[d].pc = "notify" =>
            \E i \in DOMAIN messages' : messages'[i].eid = Eid(req'[d])
       /\ (Stepped(d) /\ req[d].pc = "notify") =>
            messages' = messages /\ bookings' = bookings]_vars

C15_Witness ==
  \E d \in Reqs :
    /\ Done(d) /\ req[d].result = "error"
    /\ \A e \in Reqs \ {d} : ~Received(e)
    /\ \E i \in DOMAIN messages :
         /\ messages[i].eid = Eid(req[d])
         /\ messages[i].bookingId \in DOMAIN bookings

Built == calc.fn = "buildEID" /\ calc.done

SameProviderId ==
  /\ calc.a.platform = calc.b.platform
  /\ calc.a.threadId = calc.b.threadId
  /\ calc.a.providerMessageId = calc.b.providerMessageId

\* C16 as stated: with a providerMessageId, two calls with the same (platform,
\* threadId, providerMessageId) return the same key whatever their timestamp
\* and body; without one, two calls whose body or timestamp differ return
\* different keys.
C16_KeyByProviderIdElseByContent ==
  Built =>
    /\ (calc.a.providerMessageId # << >> /\ SameProviderId) => calc.ka = calc.kb
    /\ (calc.a.providerMessageId = << >> /\ calc.b.providerMessageId = << >>
          /\ (calc.a.body # calc.b.body \/ calc.a.timestamp # calc.b.timestamp)) =>
         calc.ka # calc.kb

\* C16 as amended: with platform, threadId and providerMessageId all present,
\* two calls with the same three return the same key whatever their timestamp
\* and body; without a providerMessageId, two calls with the same platform and
\* sender return different keys when their timestamps differ or the first 120
\* characters of their bodies differ.
C16_KeyByProviderIdElseByPrefix ==
  Built =>
    /\ (calc.a.platform # << >> /\ calc.a.threadId # << >>
          /\ calc.a.providerMessageId # << >> /\ SameProviderId) => calc.ka = calc.kb
    /\ (calc.a.providerMessageId = << >> /\ calc.b.providerMessageId = << >>
          /\ calc.a.platform = calc.b.platform /\ calc.a.from = calc.b.from
          /\ (SubSeq(calc.a.body, 1, IF Len(calc.a.body) < SLICE THEN Len(calc.a.body) ELSE SLICE)
                # SubSeq(calc.b.body, 1, IF Len(calc.b.body) < SLICE THEN Len(calc.b.body) ELSE SLICE)
              \/ calc.a.timestamp # calc.b.timestamp)) =>
         calc.ka # calc.kb

C16_Witness ==
  /\ Built
  /\ calc.a.platform # << >> /\ calc.a.threadId # << >> /\ calc.a.providerMessageId # << >>
  /\ SameProviderId
  /\ calc.a.body = Long("a") /\ calc.b.body = <<"h", "i">>
  /\ calc.a.timestamp # calc.b.timestamp
  /\ calc.ka = calc.kb


\* C17: reparseAll resolves a message's dates at the instant the intake used
\* for that message (the relay's timestamp when it sent one), so the dates a
\* run writes on a message are those of its body resolved at the delivery's
\* receivedAt.
Rewrites(k) ==
  /\ RpScan(k)
  /\ messages' # messages

C17_ResolvedAtReceivedTimestamp ==
  [][\A k \in Runs : Rewrites(k) =>
       LET id == Head(rp[k].queue) IN
       \A d \in Reqs :
         (req[d].pc = "done" /\ messages[id].eid = Eid(req[d])) =>
           messages'[id].dates =
             serializeRange(pickDateRange(messages[id].body, req[d].receivedAt))]_vars

\* C20: at most one run of reparseAll is between its first and last step.
Running == {k \in Runs : rp[k].pc # "idle"}

C20_OneRunAtATime == Cardinality(Running) <= 1

\* C18: a second run of reparseAll straight after a first one (no intake in
\* between, the same day or the day after) leaves every Booking and every
\* Message as the first run left them.
Later == {now, now + DAY}

Ends(k) ==
  /\ rp[k].pc # "idle"
  /\ rp'[k] = Returned("ok")

InWindow(msgs, clock) == {i \in DOMAIN msgs : \E j \in DOMAIN Scanned(msgs, clock) :
                                               Scanned(msgs, clock)[j] = i}

C19_CandidatesLinkedAfterRun ==
  [][\A k \in Runs : Ends(k) =>
       \A i \in InWindow(messages', now) :
         messages'[i].isBookingCandidate => messages'[i].bookingId \in DOMAIN bookings']_vars

\* C21: a persisted Message leaves the store only in a step of one of the
\* admin clean-ups (clear-all, cleanup-demo).
Loses == \E i \in DOMAIN messages : i \notin DOMAIN messages'

C21_OnlyBulkClearDeletesMessages ==
  [][Loses => (ClearAll \/ CleanupDemo)]_vars

\* the segments parseSegments has returned for the text drawn
Parsed == calc.fn = "parseSegments" /\ calc.done

\* C22: every segment parseSegments returns starts no later than it ends,
\* ranges written backwards included.
C22_StartNotAfterEnd ==
  Parsed => \A i \in DOMAIN calc.segs : calc.segs[i].startAt <= calc.segs[i].endAt

\* C23: a date written without a year is resolved in the reference instant's
\* year, or in the next one if that would put it more than seven days before
\* the reference instant: no segment starts on a day more than seven days
\* before the reference instant.
C23_NotMoreThanSevenDaysBack ==
  Parsed => \A i \in DOMAIN calc.segs :
              startOfDay(calc.segs[i].startAt) >= calc.ref - 7 * DAY

\* C24: a written date that the calendar does not have (a day past the end of
\* its month, a month number above 12) gives no segment: every segment
\* starts on a month and day written in the text.
Written(e) ==
  IF e.kind = "range" THEN {<<e.m1 - 1, e.d1>>, <<e.m2 - 1, e.d2>>}
  ELSE IF e.kind = "slash" THEN {<<e.m - 1, e.d>>}
  ELSE IF e.kind = "named" THEN {<<e.mm, e.dd>>}
  ELSE IF e.kind = "compact" THEN {<<e.mm, e.d1>>, <<e.mm, e.d2>>}
  ELSE {}

WrittenIn(text) == UNION {Written(text.dates[j]) : j \in DOMAIN text.dates}

C24_OnlyWrittenDays ==
  (Parsed /\ WrittenIn(calc.text) # {}) =>
     \A i \in DOMAIN calc.segs :
       <<getMonth(calc.segs[i].startAt), getDate(calc.segs[i].startAt)>> \in WrittenIn(calc.text)

\* C25: parseSegments returns no two segments with the same startAt and the
\* same endAt, also when several patterns find the same date in the text.
C25_NoDuplicateSegments ==
  Parsed => \A i, j \in DOMAIN calc.segs :
              (/\ calc.segs[i].startAt = calc.segs[j].startAt
               /\ calc.segs[i].endAt = calc.segs[j].endAt) => i = j

\* C26: classifyService yields only Overnight, Daycare, Drop-in or
\* Unspecified: no delivery holds the service guess Walk, and no Booking has
\* the service type Walk after intake or reparseAll wrote it.
WalkOnBooking == \E b \in DOMAIN bookings : bookings[b].serviceType = "Walk"
C26_WalkNeverProduced ==
  /\ \A d \in DOMAIN req : req[d].svc # "Walk"
  /\ ~WalkOnBooking

\* C27: intake leaves every ARCHIVED Booking as it is: the per-segment write
\* of a delivery changes no field of a Booking whose status is ARCHIVED.
C27_IntakeLeavesArchivedAlone ==
  [][(\E d \in Reqs : WriteBooking(d)) =>
       \A b \in DOMAIN bookings :
         bookings[b].status = "ARCHIVED" =>
           (b \in DOMAIN bookings' /\ bookings'[b] = bookings[b])]_vars

\* C28: once intake has answered a candidate message of a sender who had no
\* Booking before, each of the message's segments has a Booking of that
\* sender with the segment's startAt and endAt.
FirstOfSender(d) ==
  /\ Done(d) /\ req[d].result = "ok"
  /\ isCandidate(Keywords(req[d]), Segments(req[d]), req[d].svc)
  /\ \A e \in Reqs \ {d} : req[e].pc = "idle"
Booked(from, seg) ==
  \E b \in DOMAIN bookings :
    /\ bookings[b].clientPhone = from
    /\ bookings[b].startAt = seg.startAt
    /\ bookings[b].endAt = seg.endAt
C28_EverySegmentBooked ==
  \A d \in Reqs :
    FirstOfSender(d) =>
      \A i \in DOMAIN Segments(req[d]) : Booked(req[d].from, Segments(req[d])[i])

\* C29: an inbound Message is flagged as a booking candidate exactly when it
\* is linked to a Booking.
C29_CandidateIffLinked ==
  \A i \in DOMAIN messages :
    messages[i].direction = "IN" =>
      (messages[i].isBookingCandidate <=> messages[i].bookingId # 0)

\* C30: with the calendar connected and answering, a busy event exists for a
\* booking id only if that Booking exists and is CONFIRMED.
C30_EventsOnlyForConfirmed ==
  \A id \in calendar :
    id \in DOMAIN bookings /\ bookings[id].status = "CONFIRMED"
====
